---- MODULE Spec2Model ----
(***************************************************************************)
(* A model of skinny_mutex.c: a one-word mutex that is promoted to a heap  *)
(* allocated fat_mutex under contention, with the "peg" protocol guarding  *)
(* the reclamation of the fat_mutex, condition-variable waits, and the     *)
(* transfer / veto_transfer protocol.                                      *)
(*                                                                         *)
(* Granularity.  Every access to skinny->val (load, CAS, exchange) and     *)
(* every atomic subtraction on a peg refcount is a step of its own.  Code  *)
(* that runs with the fat_mutex's pthread mutex held and touches only      *)
(* fields guarded by that mutex is folded into the step of the neighbouring*)
(* atomic access.  A failed CAS followed by the re-read of val is one step *)
(* (the failed CAS changes nothing), and malloc of an object is folded     *)
(* into the CAS that publishes it (until then the object is private).      *)
(*                                                                         *)
(* Pointers.  An address is a number > 1; 0 and 1 are the two sentinels of *)
(* skinny->val.  free(x) turns every copy of the pointer x, wherever it is *)
(* stored, into -x: a dangling pointer.  It still compares equal to x (CAS *)
(* and == compare bits) but dereferencing it is a use after free, which    *)
(* sets uaf and stops the thread.  Freed addresses are handed out again by *)
(* malloc.                                                                 *)
(*                                                                         *)
(* Host primitives (malloc, the pthread mutex and cond calls) are taken to *)
(* succeed; pthread_cond_signal wakes exactly one blocked thread when there*)
(* is one.                                                                 *)
(***************************************************************************)
EXTENDS Integers, FiniteSets, TLC

VARIABLES val, heap, th, uaf, calls, cfg

vars == <<val, heap, th, uaf, calls, cfg>>

\* Bounds of the model.
NThreads == 3
NAddrs == 8
MaxCalls == 4
MaxHeldCalls == 3

Threads == 1..NThreads
Handles == {1, 2}
Addrs == 2..(NAddrs + 1)

abs(x) == IF x < 0 THEN -x ELSE x

\* p == q on pointers: the bits are compared, dangling or not.
SamePtr(x, y) == abs(x) = abs(y)

\* A pointer that can be dereferenced: it points to an allocated object.
Valid(x) == x > 1

\* What free(x) does to a stored copy v of a pointer.
Stale(x, v) == IF v = x THEN -x ELSE v

FreeCell ==
    [kind |-> "free", refcount |-> 0, next |-> 0, held |-> FALSE, waiters |-> 0,
     transfer_gen |-> 0, transfers |-> 0, mutex |-> 0, skinny |-> 0]

\* A peg that does not point on to the old value of the skinny_mutex.
peg_init_unlinked(n, h) ==
    [FreeCell EXCEPT !.kind = "peg", !.refcount = 2, !.skinny = h]

\* struct peg: common.peg = 1, refcount = 2, next = p.
peg_init(n, h) ==
    [FreeCell EXCEPT !.kind = "peg", !.refcount = 2, !.next = n, !.skinny = h]

\* struct fat_mutex as skinny_mutex_promote fills it in; its mutex is locked
\* by the promoting thread t before it is published.
fat_init(head, t, h) ==
    [FreeCell EXCEPT !.kind = "fat", !.held = (head # 0),
                     !.refcount = IF head # 0 THEN 1 ELSE 0,
                     !.mutex = t, !.skinny = h]

NoThread ==
    [pc |-> "idle", op |-> "none", sub |-> "none", skinny |-> 0, a |-> 0, b |-> 0,
     p |-> 0, peg |-> 0, fat |-> 0, fat_b |-> 0, decr |-> 0, transfer_gen |-> 0,
     res |-> "none", holding |-> 0, abstime |-> FALSE, cancel |-> FALSE,
     vetoed |-> "no", path |-> "fast"]

FreeAddrs == {x \in Addrs : heap[x].kind = "free"}

\* malloc: a first-fit allocator, the lowest address not in use; what free
\* returns is handed out again by the next malloc that finds it lowest.
malloc ==
    IF FreeAddrs = {} THEN {}
    ELSE {CHOOSE x \in FreeAddrs : \A y \in FreeAddrs : x <= y}

----------------------------------------------------------------------------
\* The state the actions transform, as one value.
Store == [val |-> val, heap |-> heap, th |-> th, uaf |-> uaf]

Commit(s) ==
    /\ val' = s.val
    /\ heap' = s.heap
    /\ th' = s.th
    /\ uaf' = s.uaf

\* free(x): the cell is released and every copy of the pointer dangles.
free(s, x) ==
    [s EXCEPT
       !.heap = [y \in Addrs |->
                   IF y = x THEN FreeCell
                   ELSE [s.heap[y] EXCEPT !.next = Stale(x, @)]],
       !.val = [h \in Handles |-> Stale(x, s.val[h])],
       !.th = [u \in Threads |->
                   [s.th[u] EXCEPT !.p = Stale(x, @), !.peg = Stale(x, @),
                                   !.fat = Stale(x, @), !.fat_b = Stale(x, @)]]]

\* A dereference of a dangling or non-pointer value, or of an object of the
\* wrong type: undefined behaviour.  The thread goes no further.
Crash(s, t) ==
    [s EXCEPT !.uaf = TRUE, !.th[t].pc = "crashed"]

\* The thread record of a thread back in its caller, out of every function.
\* What the call was and how it went is kept until the next call: the
\* operation, its result, the handles of a transfer, its generation snapshot,
\* and how far the call went (path): "fast" when val alone decided it, "slow"
\* when it went through a fat_mutex, "blocked" when it waited on the cond of
\* the fat_mutex.
Idle(thr, r, hold) ==
    [NoThread EXCEPT !.op = thr.op, !.res = r, !.holding = hold,
                     !.a = thr.a, !.b = thr.b, !.vetoed = thr.vetoed,
                     !.path = thr.path,
                     !.transfer_gen = thr.transfer_gen]

\* Where a function goes when fat_mutex_get returned < 0 (retry) ...
RetryLabel(sub) ==
    CASE sub = "lock_slow" -> "lock_slow"
      [] sub = "unlock_slow" -> "get_held"
      [] sub = "cond_timedwait" -> "get_held"
      [] sub = "trylock" -> "trylock"
      [] sub = "transfer" -> "transfer"
      [] sub = "veto_transfer" -> "veto_transfer"

\* ... and when it returned 0, with the fat_mutex locked.
GotLabel(sub) ==
    CASE sub = "lock_slow" -> "lock_slow_got"
      [] sub = "unlock_slow" -> "unlock_slow_got"
      [] sub = "cond_timedwait" -> "cond_timedwait_got"
      [] sub = "trylock" -> "trylock_got"
      [] sub = "transfer" -> "transfer_got"
      [] sub = "veto_transfer" -> "veto_transfer_got"

\* The call of fat_mutex_peg(skinny, head, &fat).
fat_mutex_peg(s, t, head) ==
    [s EXCEPT !.th[t].p = head, !.th[t].pc = "peg", !.th[t].path = "slow"]

\* fat_mutex_get: promote when head <= 1, peg otherwise.
fat_mutex_get(s, t, head) ==
    IF head \in {0, 1}
    THEN [s EXCEPT !.th[t].p = head, !.th[t].pc = "promote", !.th[t].path = "slow"]
    ELSE fat_mutex_peg(s, t, head)

\* The function named th[t].sub returns r to the operation th[t].op.
Return(s, t, r) ==
    LET thr == s.th[t] IN
    CASE thr.sub = "lock_slow" /\ thr.op = "lock" ->
           [s EXCEPT !.th[t] = Idle(thr, r, thr.skinny)]
      [] thr.sub = "lock_slow" /\ thr.op = "transfer" ->
           \* transfer: return recover(EAGAIN, skinny_mutex_lock(a))
           [s EXCEPT !.th[t] = Idle(thr, "EAGAIN", thr.a)]
      [] thr.sub = "trylock" ->
           [s EXCEPT !.th[t] = Idle(thr, r, IF r = "ok" THEN thr.skinny ELSE 0)]
      [] thr.sub = "unlock_slow" /\ thr.op = "unlock" ->
           [s EXCEPT !.th[t] = Idle(thr, r, thr.holding)]
      [] thr.sub = "unlock_slow" /\ thr.op = "transfer" ->
           IF r # "ok" THEN [s EXCEPT !.th[t].pc = "unmodelled"]
           ELSE IF thr.fat_b = 0
           THEN \* the fast path of transfer: b was taken by CAS
                [s EXCEPT !.th[t] = Idle(thr, "ok", thr.b)]
           ELSE [s EXCEPT !.th[t].pc = "transfer_relock", !.th[t].sub = "transfer",
                          !.th[t].skinny = thr.b, !.th[t].fat = 0]
      [] thr.sub = "cond_timedwait" ->
           IF thr.cancel
           THEN [s EXCEPT !.th[t] = [Idle(thr, "cancelled", thr.skinny)
                                        EXCEPT !.pc = "cancelled"]]
           ELSE IF r = "EPERM"
           THEN [s EXCEPT !.th[t] = Idle(thr, r, thr.holding)]
           ELSE \* return recover(res, c.lock_res)
                [s EXCEPT !.th[t] = Idle(thr, thr.res, thr.skinny)]
      [] thr.sub = "veto_transfer" ->
           [s EXCEPT !.th[t] = Idle(thr, r, thr.holding)]

----------------------------------------------------------------------------
\* skinny_mutex_promote: allocate a fat_mutex, lock its mutex and make the
\* skinny_mutex point to it if it still holds head.
skinny_mutex_promote(t) ==
    /\ th[t].pc = "promote"
    /\ LET thr == th[t]
           h == thr.skinny
       IN IF val[h] = thr.p
          THEN \E f \in malloc :
                 Commit([Store EXCEPT
                    !.heap[f] = fat_init(thr.p, t, h),
                    !.val[h] = f,
                    !.th[t].fat = f,
                    !.th[t].p = 0,
                    !.th[t].pc = GotLabel(thr.sub)])
          ELSE Commit([Store EXCEPT !.th[t].p = 0,
                                    !.th[t].pc = RetryLabel(thr.sub)])
    /\ UNCHANGED <<calls, cfg>>

\* fat_mutex_peg, lines 219-243: allocate a peg and install it by CAS; when
\* the CAS fails, reload val and either backtrack or try again.
fat_mutex_peg_install(t) ==
    /\ th[t].pc = "peg"
    /\ LET thr == th[t]
           h == thr.skinny
       IN IF SamePtr(val[h], thr.p)
          THEN \E g \in malloc :
                 Commit([Store EXCEPT
                    !.heap[g] = peg_init(val[h], h),
                    !.val[h] = g,
                    !.th[t].peg = g,
                    !.th[t].p = val[h],
                    !.th[t].pc = "peg_walk"])
          ELSE IF val[h] \in {0, 1}
          THEN Commit([Store EXCEPT !.th[t].p = 0,
                                    !.th[t].pc = RetryLabel(thr.sub)])
          ELSE Commit([Store EXCEPT !.th[t].p = val[h]])
    /\ UNCHANGED <<calls, cfg>>

\* fat_mutex_peg, lines 248-251: walk the chain to the fat_mutex.
fat_mutex_peg_walk(t) ==
    /\ th[t].pc = "peg_walk"
    /\ LET thr == th[t] IN
       IF ~Valid(thr.p) THEN Commit(Crash(Store, t))
       ELSE IF heap[thr.p].kind = "peg"
       THEN Commit([Store EXCEPT !.th[t].p = heap[thr.p].next])
       ELSE Commit([Store EXCEPT !.th[t].fat = thr.p, !.th[t].p = 0,
                                 !.th[t].pc = "peg_lock"])
    /\ UNCHANGED <<calls, cfg>>

\* fat_mutex_peg, lines 252-271: lock the fat_mutex, point the skinny_mutex
\* straight at it, and count the reference this may have created.
fat_mutex_peg_lock(t) ==
    /\ th[t].pc = "peg_lock"
    /\ LET thr == th[t]
           h == thr.skinny
           f == thr.fat
       IN IF ~Valid(f) THEN Commit(Crash(Store, t))
          ELSE /\ heap[f].mutex = 0
               /\ Commit([Store EXCEPT
                    !.heap[f].mutex = t,
                    !.heap[f].refcount = @ + 1,
                    !.val[h] = f,
                    !.th[t].p = val[h],
                    !.th[t].pc = "peg_chain"])
    /\ UNCHANGED <<calls, cfg>>

\* A fat_mutex_peg that takes two off its own peg although it left a
\* secondary chain behind.
fat_mutex_peg_chain_twice(t) ==
    /\ th[t].pc = "peg_chain"
    /\ LET thr == th[t]
           p == thr.p
           f == thr.fat
       IN IF SamePtr(p, thr.peg)
          THEN Commit([Store EXCEPT !.th[t].decr = 2, !.th[t].p = 0,
                                    !.th[t].pc = "peg_retire"])
          ELSE IF SamePtr(p, f)
          THEN Commit([Store EXCEPT !.heap[f].refcount = @ - 1,
                                    !.th[t].decr = 1, !.th[t].p = 0,
                                    !.th[t].pc = "peg_retire"])
          ELSE IF ~Valid(p) \/ heap[abs(p)].kind # "peg"
          THEN Commit(Crash(Store, t))
          ELSE LET n == (heap[p].refcount - 1) % 256 IN
               IF n # 0
               THEN Commit([Store EXCEPT !.heap[p].refcount = n,
                                         !.th[t].decr = 2, !.th[t].p = 0,
                                         !.th[t].pc = "peg_retire"])
               ELSE Commit(free([Store EXCEPT !.th[t].p = heap[p].next], p))
    /\ UNCHANGED <<calls, cfg>>

\* fat_mutex_peg, lines 274-301: walk the chain that hung off the old value
\* of the skinny_mutex, dropping one reference per peg.
fat_mutex_peg_chain(t) ==
    /\ th[t].pc = "peg_chain"
    /\ LET thr == th[t]
           p == thr.p
           f == thr.fat
       IN IF SamePtr(p, thr.peg)
          THEN Commit([Store EXCEPT !.th[t].decr = 2, !.th[t].p = 0,
                                    !.th[t].pc = "peg_retire"])
          ELSE IF SamePtr(p, f)
          THEN Commit([Store EXCEPT !.heap[f].refcount = @ - 1,
                                    !.th[t].decr = 1, !.th[t].p = 0,
                                    !.th[t].pc = "peg_retire"])
          ELSE IF ~Valid(p) \/ heap[abs(p)].kind # "peg"
          THEN Commit(Crash(Store, t))
          ELSE LET n == (heap[p].refcount - 1) % 256 IN
               IF n # 0
               THEN Commit([Store EXCEPT !.heap[p].refcount = n,
                                         !.th[t].decr = 1, !.th[t].p = 0,
                                         !.th[t].pc = "peg_retire"])
               ELSE Commit(free([Store EXCEPT !.th[t].p = heap[p].next], p))
    /\ UNCHANGED <<calls, cfg>>

\* fat_mutex_peg, lines 303-325: drop this thread's references to its own
\* peg, and free the pegs whose count reaches zero.  Returns 0 with the
\* fat_mutex locked.
fat_mutex_peg_retire(t) ==
    /\ th[t].pc = "peg_retire"
    /\ LET thr == th[t]
           g == thr.peg
           f == thr.fat
           done(s) == [s EXCEPT !.th[t].peg = 0, !.th[t].decr = 0,
                                !.th[t].p = 0,
                                !.th[t].pc = GotLabel(thr.sub)]
       IN IF ~Valid(g) \/ heap[abs(g)].kind # "peg"
          THEN Commit(Crash(Store, t))
          ELSE LET n == (heap[g].refcount - thr.decr) % 256
                   q == heap[g].next
               IN IF n # 0
                  THEN Commit(done([Store EXCEPT !.heap[g].refcount = n]))
                  ELSE IF SamePtr(q, f)
                  THEN Commit(done(free([Store EXCEPT
                                           !.heap[f].refcount = @ - 1], g)))
                  ELSE Commit(free([Store EXCEPT !.th[t].peg = q,
                                                 !.th[t].decr = 1], g))
    /\ UNCHANGED <<calls, cfg>>

----------------------------------------------------------------------------
\* Threads blocked in pthread_cond_wait on the cond of fat_mutex f.
Blocked(s, f) ==
    {w \in Threads : /\ s.th[w].pc \in {"fat_lock_wait", "transfer_wait"}
                     /\ s.th[w].fat = f}

WokenLabel(pc) ==
    IF pc = "fat_lock_wait" THEN "fat_lock_woken" ELSE "transfer_woken"

\* pthread_cond_signal(&fat->cond) waking w (0: nobody is blocked).
SignalChoices(s, f) ==
    IF Blocked(s, f) = {} THEN {0} ELSE Blocked(s, f)

cond_signal(s, w) ==
    IF w = 0 THEN s ELSE [s EXCEPT !.th[w].pc = WokenLabel(@)]

\* pthread_cond_broadcast(&fat->cond).
cond_broadcast(s, f) ==
    [s EXCEPT !.th = [w \in Threads |->
                        IF w \in Blocked(s, f)
                        THEN [s.th[w] EXCEPT !.pc = WokenLabel(@)]
                        ELSE s.th[w]]]

\* History, not program state.  A transfer onto fat_mutex f is pending in
\* thread u from its snapshot of transfer_gen until it is decided (fat_b is
\* set exactly then).  The field vetoed of u records what happened to b since
\* the snapshot:
\*   "pending"   the snapshot was taken with b held; b was not released since
\*   "free"      b was free at the snapshot, or was released before any veto
\*   "vetoed"    a veto came while "pending", and b was not released since
\*   "released"  b was released after that veto
\*   "late"      a veto came while "free"
\* ("no": the thread has taken no snapshot).
MarkVetoed(s, f) ==
    [s EXCEPT !.th = [u \in Threads |->
                        IF s.th[u].fat_b = f /\ s.th[u].vetoed = "pending"
                        THEN [s.th[u] EXCEPT !.vetoed = "vetoed"]
                        ELSE IF s.th[u].fat_b = f /\ s.th[u].vetoed = "free"
                        THEN [s.th[u] EXCEPT !.vetoed = "late"]
                        ELSE s.th[u]]]

MarkReleased(s, f) ==
    [s EXCEPT !.th = [u \in Threads |->
                        IF s.th[u].fat_b = f /\ s.th[u].vetoed = "vetoed"
                        THEN [s.th[u] EXCEPT !.vetoed = "released"]
                        ELSE IF s.th[u].fat_b = f /\ s.th[u].vetoed = "pending"
                        THEN [s.th[u] EXCEPT !.vetoed = "free"]
                        ELSE s.th[u]]]

\* A fat_mutex_release that frees the fat_mutex whenever val still points to
\* it, whatever the reference count says.
fat_mutex_release_eager(s, h, f) ==
    IF SamePtr(s.val[h], f)
    THEN free([s EXCEPT !.val[h] = 0], f)
    ELSE [s EXCEPT !.heap[f].refcount = @ - 1, !.heap[f].mutex = 0]

\* A fat_mutex_release that drops the reference and never frees.
fat_mutex_release_keep(s, h, f) ==
    [s EXCEPT !.heap[f].refcount = @ - 1, !.heap[f].mutex = 0]

\* fat_mutex_release(skinny h, fat f): drop a reference, unlock the
\* fat_mutex, and free it when the count reached zero and the CAS of val
\* from f to NULL succeeded.
fat_mutex_release(s, h, f) ==
    LET n == s.heap[f].refcount - 1 IN
    IF n = 0 /\ SamePtr(s.val[h], f)
    THEN free([s EXCEPT !.val[h] = 0], f)
    ELSE [s EXCEPT !.heap[f].refcount = n, !.heap[f].mutex = 0]

\* A fat_mutex_lock that takes the lock without looking at held.
fat_mutex_lock_barging(s, t) ==
    LET f == s.th[t].fat IN
    Return([s EXCEPT !.heap[f].held = TRUE, !.heap[f].mutex = 0], t, "ok")

\* fat_mutex_lock(skinny, fat), entered with the fat_mutex locked: take the
\* lock if it is free, else count as a waiter and block on the cond.
fat_mutex_lock(s, t) ==
    LET f == s.th[t].fat IN
    IF s.heap[f].held
    THEN [s EXCEPT !.heap[f].waiters = @ + 1, !.heap[f].mutex = 0,
                   !.th[t].pc = "fat_lock_wait", !.th[t].path = "blocked"]
    ELSE Return([s EXCEPT !.heap[f].held = TRUE, !.heap[f].mutex = 0], t, "ok")

\* A fat_mutex_lock that takes the lock after its wait and is still counted
\* as a waiter.
fat_mutex_lock_woken_counted(t) ==
    /\ th[t].pc = "fat_lock_woken"
    /\ LET f == th[t].fat IN
       IF ~Valid(f) THEN Commit(Crash(Store, t))
       ELSE /\ heap[f].mutex = 0
            /\ IF heap[f].held
               THEN Commit([Store EXCEPT !.th[t].pc = "fat_lock_wait"])
               ELSE Commit(Return([Store EXCEPT !.heap[f].held = TRUE], t, "ok"))
    /\ UNCHANGED <<calls, cfg>>

\* fat_mutex_lock, lines 458-468: pthread_cond_wait returns with the mutex
\* re-acquired; wait again while held, else stop being a waiter and take the
\* lock.
fat_mutex_lock_woken(t) ==
    /\ th[t].pc = "fat_lock_woken"
    /\ LET f == th[t].fat IN
       IF ~Valid(f) THEN Commit(Crash(Store, t))
       ELSE /\ heap[f].mutex = 0
            /\ IF heap[f].held
               THEN Commit([Store EXCEPT !.th[t].pc = "fat_lock_wait"])
               ELSE Commit(Return([Store EXCEPT !.heap[f].waiters = @ - 1,
                                                !.heap[f].held = TRUE], t, "ok"))
    /\ UNCHANGED <<calls, cfg>>

\* The start of an operation by a thread that is in no operation.
CanCall(t) ==
    /\ th[t].pc = "idle"
    /\ t \in cfg.threads

\* An operation that acquires, or that a holder may repeat, uses up one of
\* the calls of the run; unlock does not, so that every holder can release.
Spend ==
    /\ calls > 0
    /\ calls' = calls - 1
    /\ cfg' = cfg

\* The thread record on entry to function sub of operation op on handle h.
Enter(thr, op, sub, h, pc) ==
    [NoThread EXCEPT !.op = op, !.sub = sub, !.skinny = h, !.pc = pc,
                     !.holding = thr.holding]

\* skinny_mutex_lock (the inline fast path of skinny_mutex.h): CAS val from
\* 0 to 1, else skinny_mutex_lock_slow.
skinny_mutex_lock(t, h) ==
    /\ CanCall(t)
    /\ th[t].holding = 0
    /\ Spend
    /\ LET s == [Store EXCEPT !.th[t] = Enter(th[t], "lock", "lock_slow", h, "lock_slow")]
       IN IF val[h] = 0
          THEN Commit(Return([s EXCEPT !.val[h] = 1], t, "ok"))
          ELSE Commit(s)

\* skinny_mutex_lock_slow, lines 477-495: one turn of the loop, up to the
\* call of fat_mutex_get.
skinny_mutex_lock_slow(t) ==
    /\ th[t].pc = "lock_slow"
    /\ LET h == th[t].skinny IN
       IF val[h] = 0
       THEN Commit(Return([Store EXCEPT !.val[h] = 1], t, "ok"))
       ELSE Commit(fat_mutex_get(Store, t, val[h]))
    /\ UNCHANGED <<calls, cfg>>

\* A skinny_mutex_lock_slow that goes for the lock without counting its
\* reference.
skinny_mutex_lock_slow_got_uncounted(t) ==
    /\ th[t].pc = "lock_slow_got"
    /\ Commit(fat_mutex_lock(Store, t))
    /\ UNCHANGED <<calls, cfg>>

\* skinny_mutex_lock_slow, lines 482-485: count this thread's reference and
\* go for the lock.
skinny_mutex_lock_slow_got(t) ==
    /\ th[t].pc = "lock_slow_got"
    /\ LET f == th[t].fat IN
       Commit(fat_mutex_lock([Store EXCEPT !.heap[f].refcount = @ + 1], t))
    /\ UNCHANGED <<calls, cfg>>

\* A trylock that goes for the fat_mutex when val is 1, as
\* skinny_mutex_lock_slow does.
trylock_turn_promoting(s, t) ==
    LET h == s.th[t].skinny IN
    IF s.val[h] = 0
    THEN Return([s EXCEPT !.val[h] = 1], t, "ok")
    ELSE fat_mutex_get(s, t, s.val[h])

\* skinny_mutex_trylock, lines 501-517: one turn of the loop.
trylock_turn(s, t) ==
    LET h == s.th[t].skinny IN
    IF s.val[h] = 0
    THEN Return([s EXCEPT !.val[h] = 1], t, "ok")
    ELSE IF s.val[h] = 1
    THEN Return(s, t, "EBUSY")
    ELSE fat_mutex_peg(s, t, s.val[h])

skinny_mutex_trylock(t, h) ==
    /\ CanCall(t)
    /\ th[t].holding = 0
    /\ Spend
    /\ Commit(trylock_turn([Store EXCEPT
                 !.th[t] = Enter(th[t], "trylock", "trylock", h, "trylock")], t))

skinny_mutex_trylock_retry(t) ==
    /\ th[t].pc = "trylock"
    /\ Commit(trylock_turn(Store, t))
    /\ UNCHANGED <<calls, cfg>>

\* skinny_mutex_trylock that takes the lock without counting the holder's
\* reference.
skinny_mutex_trylock_got_uncounted(t) ==
    /\ th[t].pc = "trylock_got"
    /\ LET f == th[t].fat IN
       IF heap[f].held
       THEN Commit(Return([Store EXCEPT !.heap[f].mutex = 0], t, "EBUSY"))
       ELSE Commit(Return([Store EXCEPT !.heap[f].held = TRUE,
                                        !.heap[f].mutex = 0], t, "ok"))
    /\ UNCHANGED <<calls, cfg>>

\* skinny_mutex_trylock, lines 524-531: the fat_mutex is locked.
skinny_mutex_trylock_got(t) ==
    /\ th[t].pc = "trylock_got"
    /\ LET f == th[t].fat IN
       IF heap[f].held
       THEN Commit(Return([Store EXCEPT !.heap[f].mutex = 0], t, "EBUSY"))
       ELSE Commit(Return([Store EXCEPT !.heap[f].held = TRUE,
                                        !.heap[f].refcount = @ + 1,
                                        !.heap[f].mutex = 0], t, "ok"))
    /\ UNCHANGED <<calls, cfg>>

\* skinny_mutex_unlock (the inline fast path of skinny_mutex.h) on handle h
\* by thread t, inside function sub of operation op: CAS val from 1 to 0,
\* else skinny_mutex_unlock_slow.
unlock_fast(s, t, h) ==
    IF s.val[h] = 1
    THEN Return([s EXCEPT !.val[h] = 0, !.th[t].holding = 0], t, "ok")
    ELSE [s EXCEPT !.th[t].pc = "get_held"]

skinny_mutex_unlock(t) ==
    /\ CanCall(t)
    /\ th[t].holding # 0
    /\ LET h == th[t].holding IN
       Commit(unlock_fast([Store EXCEPT
                 !.th[t] = Enter(th[t], "unlock", "unlock_slow", h, "idle")], t, h))
    /\ UNCHANGED <<calls, cfg>>

\* fat_mutex_get_held, lines 541-547: one turn of the loop, up to the call
\* of fat_mutex_get.
get_held_turn(s, t) ==
    LET h == s.th[t].skinny IN
    IF s.val[h] = 0
    THEN Return(s, t, "EPERM")
    ELSE fat_mutex_get(s, t, s.val[h])

fat_mutex_get_held(t) ==
    /\ th[t].pc = "get_held"
    /\ Commit(get_held_turn(Store, t))
    /\ UNCHANGED <<calls, cfg>>

\* A skinny_mutex_unlock_slow that does not look at held before it gives up
\* the lock.
skinny_mutex_unlock_slow_unchecked(t) ==
    /\ th[t].pc = "unlock_slow_got"
    /\ LET f == th[t].fat
           h == th[t].skinny
           s1 == MarkReleased([Store EXCEPT !.heap[f].held = FALSE,
                                            !.th[t].holding = 0], f)
       IN \E w \in (IF heap[f].waiters # 0 THEN SignalChoices(s1, f) ELSE {0}) :
             Commit(Return(fat_mutex_release(cond_signal(s1, w), h, f), t, "ok"))
    /\ UNCHANGED <<calls, cfg>>

\* A skinny_mutex_unlock_slow that gives up the lock without signalling the
\* cond of the fat_mutex.
skinny_mutex_unlock_slow_silent(t) ==
    /\ th[t].pc = "unlock_slow_got"
    /\ LET f == th[t].fat
           h == th[t].skinny
       IN IF ~heap[f].held
          THEN Commit(Return([Store EXCEPT !.heap[f].mutex = 0], t, "EPERM"))
          ELSE LET s1 == MarkReleased([Store EXCEPT !.heap[f].held = FALSE,
                                                    !.th[t].holding = 0], f)
               IN Commit(Return(fat_mutex_release(s1, h, f), t, "ok"))
    /\ UNCHANGED <<calls, cfg>>

\* fat_mutex_get_held lines 548-556 and skinny_mutex_unlock_slow lines
\* 573-579: with the fat_mutex locked, give up the lock, wake one waiter and
\* release the fat_mutex.
skinny_mutex_unlock_slow(t) ==
    /\ th[t].pc = "unlock_slow_got"
    /\ LET f == th[t].fat
           h == th[t].skinny
       IN IF ~heap[f].held
          THEN Commit(Return([Store EXCEPT !.heap[f].mutex = 0], t, "EPERM"))
          ELSE LET s1 == MarkReleased([Store EXCEPT !.heap[f].held = FALSE,
                                                    !.th[t].holding = 0], f)
               IN \E w \in (IF heap[f].waiters # 0 THEN SignalChoices(s1, f) ELSE {0}) :
                  Commit(Return(fat_mutex_release(cond_signal(s1, w), h, f), t, "ok"))
    /\ UNCHANGED <<calls, cfg>>

----------------------------------------------------------------------------
\* skinny_mutex_cond_timedwait, called by the holder, up to the first call
\* of fat_mutex_get.  abstime: whether a deadline was given.
skinny_mutex_cond_timedwait(t, abstime) ==
    /\ CanCall(t)
    /\ th[t].holding # 0
    /\ Spend
    /\ Commit(get_held_turn([Store EXCEPT
                 !.th[t] = [Enter(th[t], "cond_wait", "cond_timedwait",
                                  th[t].holding, "get_held")
                               EXCEPT !.abstime = abstime]], t))

\* A skinny_mutex_cond_timedwait that gives up its reference to the
\* fat_mutex together with the lock, as unlock does.
skinny_mutex_cond_timedwait_got_unpinned(t) ==
    /\ th[t].pc = "cond_timedwait_got"
    /\ LET f == th[t].fat
           h == th[t].skinny
       IN IF ~heap[f].held
          THEN Commit(Return([Store EXCEPT !.heap[f].mutex = 0], t, "EPERM"))
          ELSE \E w \in (IF heap[f].waiters # 0 THEN SignalChoices(Store, f) ELSE {0}) :
                 Commit(fat_mutex_release(MarkReleased(cond_signal([Store EXCEPT
                           !.heap[f].held = FALSE,
                           !.th[t].holding = 0, !.th[t].pc = "cond_wait"], w), f),
                        h, f))
    /\ UNCHANGED <<calls, cfg>>

\* A skinny_mutex_cond_timedwait that gives up the lock without waking a
\* waiter.
skinny_mutex_cond_timedwait_got_silent(t) ==
    /\ th[t].pc = "cond_timedwait_got"
    /\ LET f == th[t].fat IN
       IF ~heap[f].held
       THEN Commit(Return([Store EXCEPT !.heap[f].mutex = 0], t, "EPERM"))
       ELSE \E w \in {0} :
              Commit(MarkReleased(cond_signal([Store EXCEPT
                        !.heap[f].held = FALSE, !.heap[f].mutex = 0,
                        !.th[t].holding = 0, !.th[t].pc = "cond_wait"], w), f))
    /\ UNCHANGED <<calls, cfg>>

\* skinny_mutex_cond_timedwait, lines 605-628: wake a waiter, give up the
\* lock but not the reference, and block on the caller's condition variable
\* (which unlocks the fat_mutex).
skinny_mutex_cond_timedwait_got(t) ==
    /\ th[t].pc = "cond_timedwait_got"
    /\ LET f == th[t].fat IN
       IF ~heap[f].held
       THEN Commit(Return([Store EXCEPT !.heap[f].mutex = 0], t, "EPERM"))
       ELSE \E w \in (IF heap[f].waiters # 0 THEN SignalChoices(Store, f) ELSE {0}) :
              Commit(MarkReleased(cond_signal([Store EXCEPT
                        !.heap[f].held = FALSE, !.heap[f].mutex = 0,
                        !.th[t].holding = 0, !.th[t].pc = "cond_wait"], w), f))
    /\ UNCHANGED <<calls, cfg>>

\* What ends the wait on the caller's condition variable.
WaitEnds(abstime) ==
    {"signal", "cancel"} \cup (IF abstime THEN {"timeout"} ELSE {})

\* A cond_wait_cleanup that unlocks the fat_mutex and does not take the lock
\* again.
cond_wait_cleanup_unlocked(t, how) ==
    /\ th[t].pc = "cond_wait"
    /\ how \in WaitEnds(th[t].abstime)
    /\ LET f == th[t].fat IN
       IF ~Valid(f) THEN Commit(Crash(Store, t))
       ELSE /\ heap[f].mutex = 0
            /\ Commit(Return([Store EXCEPT
                    !.th[t].res = IF how = "timeout" THEN "ETIMEDOUT" ELSE "ok",
                    !.th[t].cancel = (how = "cancel")], t, "ok"))
    /\ UNCHANGED <<calls, cfg>>

\* pthread_cond_wait / pthread_cond_timedwait on the caller's condition
\* variable ends (signalled, timed out, or the thread was cancelled): the
\* fat_mutex is locked again and cond_wait_cleanup re-acquires the lock with
\* fat_mutex_lock.  A cancelled thread then unwinds with the lock held.
cond_wait_cleanup(t, how) ==
    /\ th[t].pc = "cond_wait"
    /\ how \in WaitEnds(th[t].abstime)
    /\ LET f == th[t].fat IN
       IF ~Valid(f) THEN Commit(Crash(Store, t))
       ELSE /\ heap[f].mutex = 0
            /\ Commit(fat_mutex_lock([Store EXCEPT
                    !.th[t].res = IF how = "timeout" THEN "ETIMEDOUT" ELSE "ok",
                    !.th[t].cancel = (how = "cancel")], t))
    /\ UNCHANGED <<calls, cfg>>

\* Handle h is not locked: val is not 1 and no fat_mutex of h has held set.
Unheld(h) ==
    /\ val[h] # 1
    /\ \A x \in Addrs :
          (heap[x].kind = "fat" /\ heap[x].skinny = h) => ~heap[x].held

\* skinny_mutex_unlock called by a thread that holds nothing, on a handle
\* that nobody holds.
skinny_mutex_unlock_unheld(t, h) ==
    /\ CanCall(t)
    /\ th[t].holding = 0
    /\ Unheld(h)
    /\ Spend
    /\ Commit(unlock_fast([Store EXCEPT
                 !.th[t] = Enter(th[t], "unlock", "unlock_slow", h, "idle")], t, h))

\* skinny_mutex_cond_timedwait called likewise.
skinny_mutex_cond_timedwait_unheld(t, h, abstime) ==
    /\ CanCall(t)
    /\ th[t].holding = 0
    /\ Unheld(h)
    /\ Spend
    /\ Commit(get_held_turn([Store EXCEPT
                 !.th[t] = [Enter(th[t], "cond_wait", "cond_timedwait", h, "get_held")
                               EXCEPT !.abstime = abstime]], t))

----------------------------------------------------------------------------
\* skinny_mutex_transfer, lines 645-673: one turn of the first loop.
transfer_turn(s, t) ==
    LET b == s.th[t].b IN
    IF s.val[b] = 0
    THEN [s EXCEPT !.val[b] = 1, !.th[t].pc = "transfer_fast_unlock"]
    ELSE fat_mutex_get(s, t, s.val[b])

skinny_mutex_transfer(t, b) ==
    /\ CanCall(t)
    /\ th[t].holding # 0
    /\ b # th[t].holding
    /\ Spend
    /\ Commit(transfer_turn([Store EXCEPT
                 !.th[t] = [Enter(th[t], "transfer", "transfer", b, "transfer")
                               EXCEPT !.a = th[t].holding, !.b = b]], t))

skinny_mutex_transfer_retry(t) ==
    /\ th[t].pc = "transfer"
    /\ Commit(transfer_turn(Store, t))
    /\ UNCHANGED <<calls, cfg>>

\* skinny_mutex_transfer, lines 655-663: b was taken by CAS; unlock a.
skinny_mutex_transfer_fast_unlock(t) ==
    /\ th[t].pc = "transfer_fast_unlock"
    /\ Commit(unlock_fast([Store EXCEPT !.th[t].sub = "unlock_slow",
                                        !.th[t].skinny = th[t].a], t, th[t].a))
    /\ UNCHANGED <<calls, cfg>>

\* A transfer loop that gives up with EAGAIN without taking itself off the
\* counts of transfers and waiters.
transfer_loop_counted(s, t) ==
    LET f == s.th[t].fat
        leave(s1) == [s1 EXCEPT !.heap[f].transfers = @ - 1,
                                !.heap[f].waiters = @ - 1]
    IN IF ~s.heap[f].held
       THEN [leave(s) EXCEPT !.heap[f].held = TRUE, !.heap[f].mutex = 0,
                             !.th[t] = Idle(s.th[t], "ok", s.th[t].b)]
       ELSE IF s.heap[f].transfer_gen # s.th[t].transfer_gen
       THEN LET s2 == fat_mutex_release(s, s.th[t].b, f) IN
            [s2 EXCEPT !.th[t].pc = "transfer_lock_a", !.th[t].fat = 0,
                       !.th[t].fat_b = 0]
       ELSE [s EXCEPT !.heap[f].mutex = 0, !.th[t].pc = "transfer_wait",
                      !.th[t].path = "blocked"]

\* A transfer loop that takes b without setting held.
transfer_loop_unheld(s, t) ==
    LET f == s.th[t].fat
        leave(s1) == [s1 EXCEPT !.heap[f].transfers = @ - 1,
                                !.heap[f].waiters = @ - 1]
    IN IF ~s.heap[f].held
       THEN [leave(s) EXCEPT !.heap[f].mutex = 0,
                             !.th[t] = Idle(s.th[t], "ok", s.th[t].b)]
       ELSE IF s.heap[f].transfer_gen # s.th[t].transfer_gen
       THEN LET s2 == fat_mutex_release(leave(s), s.th[t].b, f) IN
            [s2 EXCEPT !.th[t].pc = "transfer_lock_a", !.th[t].fat = 0,
                       !.th[t].fat_b = 0]
       ELSE [s EXCEPT !.heap[f].mutex = 0, !.th[t].pc = "transfer_wait",
                      !.th[t].path = "blocked"]

\* skinny_mutex_transfer, lines 696-727, with fat_b locked: take b if it is
\* free; give up with EAGAIN when the generation moved; else wait.
transfer_loop(s, t) ==
    LET f == s.th[t].fat
        leave(s1) == [s1 EXCEPT !.heap[f].transfers = @ - 1,
                                !.heap[f].waiters = @ - 1]
    IN IF ~s.heap[f].held
       THEN [leave(s) EXCEPT !.heap[f].held = TRUE, !.heap[f].mutex = 0,
                             !.th[t] = Idle(s.th[t], "ok", s.th[t].b)]
       ELSE IF s.heap[f].transfer_gen # s.th[t].transfer_gen
       THEN LET s2 == fat_mutex_release(leave(s), s.th[t].b, f) IN
            [s2 EXCEPT !.th[t].pc = "transfer_lock_a", !.th[t].fat = 0,
                       !.th[t].fat_b = 0]
       ELSE [s EXCEPT !.heap[f].mutex = 0, !.th[t].pc = "transfer_wait",
                      !.th[t].path = "blocked"]

\* skinny_mutex_transfer, lines 693-694.
transfer_enqueue(s, t) ==
    LET f == s.th[t].fat IN
    transfer_loop([s EXCEPT !.heap[f].transfers = @ + 1,
                            !.heap[f].waiters = @ + 1], t)

\* A skinny_mutex_transfer that enters the slow unlock of a with the mutex of
\* fat_b still locked.
skinny_mutex_transfer_got_locked(t) ==
    /\ th[t].pc = "transfer_got"
    /\ LET f == th[t].fat
           a == th[t].a
           s == [Store EXCEPT !.heap[f].refcount = @ + 1,
                              !.th[t].transfer_gen = heap[f].transfer_gen,
                              !.th[t].vetoed = IF heap[f].held THEN "pending"
                                               ELSE "free",
                              !.th[t].fat_b = f]
       IN IF val[a] = 1
          THEN Commit(transfer_enqueue([s EXCEPT !.val[a] = 0,
                                                 !.th[t].holding = 0], t))
          ELSE Commit([s EXCEPT !.th[t].fat = 0,
                                !.th[t].sub = "unlock_slow",
                                !.th[t].skinny = a,
                                !.th[t].pc = "get_held"])
    /\ UNCHANGED <<calls, cfg>>

\* A skinny_mutex_transfer that does not record the generation: its
\* transfer_gen stays what it was on entry, 0.
skinny_mutex_transfer_got_unrecorded(t) ==
    /\ th[t].pc = "transfer_got"
    /\ LET f == th[t].fat
           a == th[t].a
           s == [Store EXCEPT !.heap[f].refcount = @ + 1,
                              !.th[t].vetoed = IF heap[f].held THEN "pending"
                                               ELSE "free",
                              !.th[t].fat_b = f]
       IN IF val[a] = 1
          THEN Commit(transfer_enqueue([s EXCEPT !.val[a] = 0,
                                                 !.th[t].holding = 0], t))
          ELSE Commit([s EXCEPT !.heap[f].mutex = 0,
                                !.th[t].fat = 0,
                                !.th[t].sub = "unlock_slow",
                                !.th[t].skinny = a,
                                !.th[t].pc = "get_held"])
    /\ UNCHANGED <<calls, cfg>>

\* A skinny_mutex_transfer that takes its snapshot of transfer_gen without
\* a reference to fat_b.
skinny_mutex_transfer_got_unreferenced(t) ==
    /\ th[t].pc = "transfer_got"
    /\ LET f == th[t].fat
           a == th[t].a
           s == [Store EXCEPT !.th[t].transfer_gen = heap[f].transfer_gen,
                              !.th[t].vetoed = IF heap[f].held THEN "pending"
                                               ELSE "free",
                              !.th[t].fat_b = f]
       IN IF val[a] = 1
          THEN Commit(transfer_enqueue([s EXCEPT !.val[a] = 0,
                                                 !.th[t].holding = 0], t))
          ELSE Commit([s EXCEPT !.heap[f].mutex = 0,
                                !.th[t].fat = 0,
                                !.th[t].sub = "unlock_slow",
                                !.th[t].skinny = a,
                                !.th[t].pc = "get_held"])
    /\ UNCHANGED <<calls, cfg>>

\* skinny_mutex_transfer, lines 675-694: with fat_b locked, count the
\* reference, record the generation and unlock a, by CAS if that works.
skinny_mutex_transfer_got(t) ==
    /\ th[t].pc = "transfer_got"
    /\ LET f == th[t].fat
           a == th[t].a
           s == [Store EXCEPT !.heap[f].refcount = @ + 1,
                              !.th[t].transfer_gen = heap[f].transfer_gen,
                              !.th[t].vetoed = IF heap[f].held THEN "pending"
                                               ELSE "free",
                              !.th[t].fat_b = f]
       IN IF val[a] = 1
          THEN Commit(transfer_enqueue([s EXCEPT !.val[a] = 0,
                                                 !.th[t].holding = 0], t))
          ELSE Commit([s EXCEPT !.heap[f].mutex = 0,
                                !.th[t].fat = 0,
                                !.th[t].sub = "unlock_slow",
                                !.th[t].skinny = a,
                                !.th[t].pc = "get_held"])
    /\ UNCHANGED <<calls, cfg>>

\* A skinny_mutex_transfer that goes on after the slow unlock of a without
\* locking the mutex of fat_b again.
skinny_mutex_transfer_relock_unlocked(t) ==
    /\ th[t].pc = "transfer_relock"
    /\ LET f == th[t].fat_b IN
       IF ~Valid(f) THEN Commit(Crash(Store, t))
       ELSE Commit(transfer_enqueue([Store EXCEPT !.th[t].fat = f], t))
    /\ UNCHANGED <<calls, cfg>>

\* skinny_mutex_transfer, lines 688-694: a is unlocked; lock fat_b again.
skinny_mutex_transfer_relock(t) ==
    /\ th[t].pc = "transfer_relock"
    /\ LET f == th[t].fat_b IN
       IF ~Valid(f) THEN Commit(Crash(Store, t))
       ELSE /\ heap[f].mutex = 0
            /\ Commit(transfer_enqueue([Store EXCEPT !.th[t].fat = f], t))
    /\ UNCHANGED <<calls, cfg>>

\* skinny_mutex_transfer, lines 717-722: pthread_cond_wait returned.
skinny_mutex_transfer_woken(t) ==
    /\ th[t].pc = "transfer_woken"
    /\ LET f == th[t].fat IN
       IF ~Valid(f) THEN Commit(Crash(Store, t))
       ELSE /\ heap[f].mutex = 0
            /\ Commit(transfer_loop(Store, t))
    /\ UNCHANGED <<calls, cfg>>

\* skinny_mutex_transfer, line 727: skinny_mutex_lock(a) after EAGAIN.
skinny_mutex_transfer_lock_a(t) ==
    /\ th[t].pc = "transfer_lock_a"
    /\ LET a == th[t].a
           s == [Store EXCEPT !.th[t].sub = "lock_slow", !.th[t].skinny = a,
                              !.th[t].pc = "lock_slow"]
       IN IF val[a] = 0
          THEN Commit(Return([s EXCEPT !.val[a] = 1], t, "ok"))
          ELSE Commit(s)
    /\ UNCHANGED <<calls, cfg>>

----------------------------------------------------------------------------
\* skinny_mutex_veto_transfer, lines 735-755: one turn of the loop.
veto_turn(s, t) ==
    LET h == s.th[t].skinny IN
    IF s.val[h] = 1
    THEN Return(s, t, "ok")
    ELSE IF s.val[h] = 0
    THEN Return(s, t, "EPERM")
    ELSE fat_mutex_peg(s, t, s.val[h])

\* skinny_mutex_veto_transfer, called by the holder.
skinny_mutex_veto_transfer(t) ==
    /\ CanCall(t)
    /\ th[t].holding # 0
    /\ Spend
    /\ Commit([Store EXCEPT
                 !.th[t] = Enter(th[t], "veto_transfer", "veto_transfer",
                                 th[t].holding, "veto_transfer")])

skinny_mutex_veto_transfer_loop(t) ==
    /\ th[t].pc = "veto_transfer"
    /\ Commit(veto_turn(Store, t))
    /\ UNCHANGED <<calls, cfg>>

\* A skinny_mutex_veto_transfer that never broadcasts.
skinny_mutex_veto_transfer_got_quiet(t) ==
    /\ th[t].pc = "veto_transfer_got"
    /\ LET f == th[t].fat IN
       IF ~heap[f].held
       THEN Commit(Return([Store EXCEPT !.heap[f].mutex = 0], t, "EPERM"))
       ELSE Commit(Return(MarkVetoed([Store EXCEPT !.heap[f].transfer_gen = @ + 1,
                                                   !.heap[f].mutex = 0], f), t, "ok"))
    /\ UNCHANGED <<calls, cfg>>

\* skinny_mutex_veto_transfer, lines 757-767: the fat_mutex is locked.
skinny_mutex_veto_transfer_got(t) ==
    /\ th[t].pc = "veto_transfer_got"
    /\ LET f == th[t].fat IN
       IF ~heap[f].held
       THEN Commit(Return([Store EXCEPT !.heap[f].mutex = 0], t, "EPERM"))
       ELSE LET s1 == MarkVetoed([Store EXCEPT !.heap[f].transfer_gen = @ + 1,
                                               !.heap[f].mutex = 0], f)
            IN Commit(Return(IF heap[f].transfers # 0
                             THEN cond_broadcast(s1, f) ELSE s1, t, "ok"))
    /\ UNCHANGED <<calls, cfg>>

\* skinny_mutex_veto_transfer called by a thread that holds nothing, on a
\* handle that nobody holds.
skinny_mutex_veto_transfer_unheld(t, h) ==
    /\ CanCall(t)
    /\ th[t].holding = 0
    /\ Unheld(h)
    /\ Spend
    /\ Commit([Store EXCEPT
                 !.th[t] = Enter(th[t], "veto_transfer", "veto_transfer",
                                 h, "veto_transfer")])

\* malloc and free as steps of their own.  A fat_mutex is private to the
\* thread in skinny_mutex_promote until its CAS publishes it, and private to
\* the thread in fat_mutex_release once its CAS took it out of val; the
\* actions above do the malloc in the step of the CAS that publishes and the
\* free in the step of the CAS that unpublishes.  The actions below keep the
\* steps apart, so that a state shows what is allocated between them.

\* skinny_mutex_promote, lines 344-369: allocate and fill in the fat_mutex,
\* lock its mutex.
skinny_mutex_promote_malloc(t) ==
    /\ th[t].pc = "promote"
    /\ \E f \in malloc :
          Commit([Store EXCEPT !.heap[f] = fat_init(th[t].p, t, th[t].skinny),
                               !.th[t].fat = f,
                               !.th[t].pc = "promote_cas"])
    /\ UNCHANGED <<calls, cfg>>

\* A skinny_mutex_promote that does not free the fat_mutex when its CAS
\* fails.
skinny_mutex_promote_cas_leaky(t) ==
    /\ th[t].pc = "promote_cas"
    /\ LET thr == th[t]
           h == thr.skinny
       IN IF val[h] = thr.p
          THEN Commit([Store EXCEPT !.val[h] = thr.fat,
                                    !.th[t].p = 0,
                                    !.th[t].pc = GotLabel(thr.sub)])
          ELSE Commit([Store EXCEPT !.th[t].p = 0, !.th[t].fat = 0,
                                    !.th[t].pc = RetryLabel(thr.sub)])
    /\ UNCHANGED <<calls, cfg>>

\* skinny_mutex_promote, lines 371-384: the CAS of val from head to the
\* fat_mutex; when it fails, unlock, destroy and free the fat_mutex and
\* return -1.
skinny_mutex_promote_cas(t) ==
    /\ th[t].pc = "promote_cas"
    /\ LET thr == th[t]
           h == thr.skinny
       IN IF val[h] = thr.p
          THEN Commit([Store EXCEPT !.val[h] = thr.fat,
                                    !.th[t].p = 0,
                                    !.th[t].pc = GotLabel(thr.sub)])
          ELSE Commit(free([Store EXCEPT !.th[t].p = 0, !.th[t].fat = 0,
                                         !.th[t].pc = RetryLabel(thr.sub)],
                           thr.fat))
    /\ UNCHANGED <<calls, cfg>>

\* skinny_mutex_unlock_slow with fat_mutex_release up to its
\* pthread_mutex_unlock (lines 423-427): when the count reached zero and the
\* CAS of val from the fat_mutex to NULL succeeded, the free is still to come.
skinny_mutex_unlock_slow_cas(t) ==
    /\ th[t].pc = "unlock_slow_got"
    /\ LET f == th[t].fat
           h == th[t].skinny
       IN IF ~heap[f].held
          THEN Commit(Return([Store EXCEPT !.heap[f].mutex = 0], t, "EPERM"))
          ELSE LET s1 == MarkReleased([Store EXCEPT !.heap[f].held = FALSE,
                                                    !.th[t].holding = 0], f)
                   n == heap[f].refcount - 1
               IN \E w \in (IF heap[f].waiters # 0 THEN SignalChoices(s1, f) ELSE {0}) :
                  IF n = 0 /\ SamePtr(val[h], f)
                  THEN Commit([cond_signal(s1, w) EXCEPT
                                  !.val[h] = 0,
                                  !.heap[f].refcount = n,
                                  !.heap[f].mutex = 0,
                                  !.th[t].pc = "release_free"])
                  ELSE Commit(Return([cond_signal(s1, w) EXCEPT
                                         !.heap[f].refcount = n,
                                         !.heap[f].mutex = 0], t, "ok"))
    /\ UNCHANGED <<calls, cfg>>

\* fat_mutex_release, lines 429-437: destroy the mutex and the cond, free the
\* fat_mutex, return 0.
fat_mutex_release_free(t) ==
    /\ th[t].pc = "release_free"
    /\ Commit(Return(free(Store, th[t].fat), t, "ok"))
    /\ UNCHANGED <<calls, cfg>>

----------------------------------------------------------------------------
PegStep(t) ==
    \/ skinny_mutex_promote(t)
    \/ fat_mutex_peg_install(t)
    \/ fat_mutex_peg_walk(t)
    \/ fat_mutex_peg_lock(t)
    \/ fat_mutex_peg_chain(t)
    \/ fat_mutex_peg_retire(t)

LockStep(t) ==
    \/ \E h \in cfg.handles : skinny_mutex_lock(t, h)
    \/ skinny_mutex_lock_slow(t)
    \/ skinny_mutex_lock_slow_got(t)
    \/ fat_mutex_lock_woken(t)

UnlockStep(t) ==
    \/ skinny_mutex_unlock(t)
    \/ fat_mutex_get_held(t)
    \/ skinny_mutex_unlock_slow(t)

TrylockStep(t) ==
    \/ \E h \in cfg.handles : skinny_mutex_trylock(t, h)
    \/ skinny_mutex_trylock_retry(t)
    \/ skinny_mutex_trylock_got(t)

CondStep(t) ==
    \/ \E abstime \in BOOLEAN : skinny_mutex_cond_timedwait(t, abstime)
    \/ skinny_mutex_cond_timedwait_got(t)
    \/ \E how \in {"signal", "timeout", "cancel"} : cond_wait_cleanup(t, how)

TransferStep(t) ==
    \/ \E b \in cfg.handles : skinny_mutex_transfer(t, b)
    \/ skinny_mutex_transfer_retry(t)
    \/ skinny_mutex_transfer_fast_unlock(t)
    \/ skinny_mutex_transfer_got(t)
    \/ skinny_mutex_transfer_relock(t)
    \/ skinny_mutex_transfer_woken(t)
    \/ skinny_mutex_transfer_lock_a(t)

VetoStep(t) ==
    \/ skinny_mutex_veto_transfer(t)
    \/ skinny_mutex_veto_transfer_loop(t)
    \/ skinny_mutex_veto_transfer_got(t)

\* skinny_mutex_init on every handle, an empty heap, no thread in any call.
InitWith(threads, handles, n) ==
    /\ val = [h \in Handles |-> 0]
    /\ heap = [x \in Addrs |-> FreeCell]
    /\ th = [t \in Threads |-> NoThread]
    /\ uaf = FALSE
    /\ calls = n
    /\ cfg = [threads |-> threads, handles |-> handles]

\* Every operation, on two handles.
Init == InitWith(Threads, Handles, MaxCalls)

Next ==
    \E t \in Threads :
       \/ PegStep(t)
       \/ LockStep(t)
       \/ UnlockStep(t)
       \/ TrylockStep(t)
       \/ CondStep(t)
       \/ TransferStep(t)
       \/ VetoStep(t)

Spec == Init /\ [][Next]_vars

\* lock and unlock only, on one handle, under a fair scheduler: a thread
\* that can take a step inside an operation eventually takes one, and a
\* holder eventually calls unlock.  Nothing obliges a thread to call lock.
InitLockUnlock == InitWith(Threads, {1}, MaxCalls)

NextLockUnlock ==
    \E t \in Threads :
       \/ PegStep(t)
       \/ LockStep(t)
       \/ UnlockStep(t)

Running(t) ==
    \/ PegStep(t)
    \/ skinny_mutex_lock_slow(t)
    \/ skinny_mutex_lock_slow_got(t)
    \/ fat_mutex_lock_woken(t)
    \/ UnlockStep(t)

SpecLockUnlock ==
    /\ InitLockUnlock
    /\ [][NextLockUnlock]_vars
    /\ \A t \in Threads : WF_vars(Running(t))

\* transfer and veto_transfer: the runs start when thread 1 has locked
\* handle 1 and thread 2 has locked handle 2, both without contention.
InitHeld ==
    /\ val = [h \in Handles |-> 1]
    /\ heap = [x \in Addrs |-> FreeCell]
    /\ th = [t \in Threads |->
               IF t \in Handles
               THEN [NoThread EXCEPT !.op = "lock", !.res = "ok", !.holding = t]
               ELSE NoThread]
    /\ uaf = FALSE
    /\ calls = MaxHeldCalls
    /\ cfg = [threads |-> Threads, handles |-> Handles]

NextTransfer ==
    \E t \in Threads :
       \/ PegStep(t)
       \/ LockStep(t)
       \/ UnlockStep(t)
       \/ TransferStep(t)
       \/ VetoStep(t)

SpecTransfer == InitHeld /\ [][NextTransfer]_vars

\* The same without veto_transfer.  No transfer is vetoed then, and the last
\* line of skinny_mutex_transfer, which locks a again, is never reached.
TransferNoVetoStep(t) ==
    \/ \E b \in cfg.handles : skinny_mutex_transfer(t, b)
    \/ skinny_mutex_transfer_retry(t)
    \/ skinny_mutex_transfer_fast_unlock(t)
    \/ skinny_mutex_transfer_got(t)
    \/ skinny_mutex_transfer_relock(t)
    \/ skinny_mutex_transfer_woken(t)

NextNoVeto ==
    \E t \in Threads :
       \/ PegStep(t)
       \/ LockStep(t)
       \/ UnlockStep(t)
       \/ TransferNoVetoStep(t)

SpecNoVeto == InitHeld /\ [][NextNoVeto]_vars

\* lock, unlock and the condition-variable waits on one handle.
InitCond == InitWith(Threads, {1}, MaxCalls)

NextCond ==
    \E t \in Threads :
       \/ PegStep(t)
       \/ LockStep(t)
       \/ UnlockStep(t)
       \/ CondStep(t)

SpecCond == InitCond /\ [][NextCond]_vars

\* The same with callers that unlock or wait on a handle nobody holds, in
\* runs of MaxHeldCalls calls.
InitNotOwner == InitWith(Threads, {1}, MaxHeldCalls)

NotOwnerStep(t) ==
    \/ \E h \in cfg.handles : skinny_mutex_unlock_unheld(t, h)
    \/ \E h \in cfg.handles, abstime \in BOOLEAN :
          skinny_mutex_cond_timedwait_unheld(t, h, abstime)

NextNotOwner ==
    \E t \in Threads :
       \/ PegStep(t)
       \/ LockStep(t)
       \/ UnlockStep(t)
       \/ CondStep(t)
       \/ NotOwnerStep(t)

SpecNotOwner == InitNotOwner /\ [][NextNotOwner]_vars

----------------------------------------------------------------------------
\* transfer and veto_transfer as in SpecTransfer, and veto_transfer also
\* called by threads that do not hold the handle.
NextVeto ==
    \E t \in Threads :
       \/ PegStep(t)
       \/ LockStep(t)
       \/ UnlockStep(t)
       \/ TransferStep(t)
       \/ VetoStep(t)
       \/ \E h \in cfg.handles : skinny_mutex_veto_transfer_unheld(t, h)

SpecVeto == InitHeld /\ [][NextVeto]_vars

\* Uncontended use: one thread at a time is in an operation, and every
\* operation returns before the next starts, so that lock is only called on
\* a handle that nobody holds (trylock may find it held; unlock is called by
\* the holder).
Alone(t) == \A u \in Threads \ {t} : th[u].pc = "idle"

UncontendedStep(t) ==
    \/ \E h \in cfg.handles : Alone(t) /\ Unheld(h) /\ skinny_mutex_lock(t, h)
    \/ \E h \in cfg.handles : Alone(t) /\ skinny_mutex_trylock(t, h)
    \/ Alone(t) /\ skinny_mutex_unlock(t)

NextUncontended == \E t \in Threads : UncontendedStep(t)

SpecUncontended == Init /\ [][NextUncontended]_vars

\* lock, trylock and unlock on one handle, with malloc and free as steps of
\* their own.
PegAllocStep(t) ==
    \/ skinny_mutex_promote_malloc(t)
    \/ skinny_mutex_promote_cas(t)
    \/ fat_mutex_peg_install(t)
    \/ fat_mutex_peg_walk(t)
    \/ fat_mutex_peg_lock(t)
    \/ fat_mutex_peg_chain(t)
    \/ fat_mutex_peg_retire(t)

UnlockAllocStep(t) ==
    \/ skinny_mutex_unlock(t)
    \/ fat_mutex_get_held(t)
    \/ skinny_mutex_unlock_slow_cas(t)
    \/ fat_mutex_release_free(t)

InitAlloc == InitWith(Threads, {1}, MaxCalls)

NextAlloc ==
    \E t \in Threads :
       \/ PegAllocStep(t)
       \/ LockStep(t)
       \/ UnlockAllocStep(t)
       \/ TrylockStep(t)

SpecAlloc == InitAlloc /\ [][NextAlloc]_vars

\* Every operation, from the state in which both handles are held.
SpecHeld == InitHeld /\ [][Next]_vars

\* The properties of skinny_mutex.c.

\* The threads that returned from an acquisition of h and have not released
\* it since.
Holders(h) == {t \in Threads : th[t].holding = h}

\* Thread t is inside an operation that involves handle h, or holds h.
Busy(t, h) ==
    \/ th[t].holding = h
    \/ th[t].pc # "idle" /\ h \in {th[t].skinny, th[t].a, th[t].b}

\* No thread is in any operation and no handle is held.
Quiescent == \A t \in Threads : th[t].pc = "idle" /\ th[t].holding = 0

\* The model's heap never runs out: malloc always finds a free address.
HeapSuffices == FreeAddrs # {}

\* C1 (mutual exclusion): for every handle, at any moment at most one thread
\* is between the return of a successful acquisition of that handle and its
\* release of it.
MutualExclusion == \A h \in Handles : Cardinality(Holders(h)) <= 1

\* C1, its case: a handle is held by one thread while another one is blocked
\* in fat_mutex_lock, waiting for the same handle.
MutualExclusionContended ==
    \E t, u \in Threads :
       /\ th[t].holding # 0
       /\ th[u].pc = "fat_lock_wait"
       /\ th[u].skinny = th[t].holding

\* C2 (no use after free): no thread ever dereferences a pointer to a freed
\* peg or fat_mutex, and no pointer that the program will dereference (val,
\* the next field of a live peg, a thread's fat, fat_b and peg) dangles: an
\* object is freed only when the last reference to it is gone.  The one
\* dangling pointer a thread may hold is the head it read from val before
\* installing its peg, which is only compared, never dereferenced.
NoUseAfterFree ==
    /\ ~uaf
    /\ \A h \in Handles : val[h] >= 0
    /\ \A x \in Addrs : heap[x].next >= 0
    /\ \A t \in Threads :
          /\ th[t].fat >= 0 /\ th[t].fat_b >= 0 /\ th[t].peg >= 0
          /\ th[t].p < 0 => th[t].pc = "peg"

\* C2, its case: an object was freed while a thread that had read its
\* address from val is about to install a peg.
FreedUnderReader == \E t \in Threads : th[t].pc = "peg" /\ th[t].p < 0

\* C3 (no leak): whenever no thread is inside an operation on a handle and
\* the handle is not held, its val is 0 and every peg and fat_mutex that was
\* allocated for it has been freed.
NoLeak ==
    \A h \in Handles :
       (\A t \in Threads : ~Busy(t, h))
          => /\ val[h] = 0
             /\ \A x \in Addrs : heap[x].skinny # h

\* C3, its case: every thread is back in its caller, nothing is held, and
\* the last call of some thread went through a fat_mutex.
QuiescentAfterContention ==
    Quiescent /\ \E t \in Threads : th[t].path # "fast"

TransferReturned(t) == th[t].op = "transfer" /\ th[t].pc = "idle"

\* C5 (veto linearization): a transfer that took its snapshot of
\* transfer_gen while b was held, and that a veto by b's holder found pending
\* (b not released in between), returns EAGAIN, never ok.
VetoLinearization ==
    \A t \in Threads :
       (TransferReturned(t) /\ th[t].vetoed \in {"vetoed", "released"})
          => th[t].res = "EAGAIN"

\* The fat_mutex of handle h, when there is one.
FatOf(h) == {x \in Addrs : heap[x].kind = "fat" /\ heap[x].skinny = h}

\* What the memory of the program says: handle h is locked.
Locked(h) == val[h] = 1 \/ \E x \in FatOf(h) : heap[x].held

\* What the history says: thread t acquired h and has not released it.  A
\* transfer that took b by CAS owns b while it is still unlocking a.
Owns(t, h) ==
    \/ th[t].holding = h
    \/ /\ th[t].op = "transfer" /\ th[t].b = h /\ th[t].fat_b = 0
       /\ th[t].pc = "transfer_fast_unlock" \/ th[t].sub = "unlock_slow"

\* C6 (transfer equivalence): with no veto around, transfer(a, b) never
\* returns EAGAIN; when it has returned, the result is ok and the caller
\* holds b and not a; and at every moment a handle is locked exactly when one
\* thread owns it, so a was released once and b acquired once.
TransferEquivalence ==
    /\ \A t \in Threads :
          /\ th[t].pc # "transfer_lock_a"
          /\ TransferReturned(t)
                => /\ th[t].res = "ok"
                   /\ th[t].holding = th[t].b
                   /\ th[t].holding # th[t].a
    /\ \A h \in Handles :
          Cardinality({t \in Threads : Owns(t, h)}) = IF Locked(h) THEN 1 ELSE 0

\* C6, its case: a transfer that had to wait for b has returned ok while
\* another thread holds the handle it gave up.
TransferAfterWait ==
    \E t, u \in Threads :
       /\ TransferReturned(t) /\ th[t].res = "ok" /\ th[t].path = "blocked"
       /\ th[u].holding = th[t].a

\* The threads counted in fat->waiters (blocked on the cond of fat_mutex f,
\* or woken and not yet running), and those also counted in fat->transfers.
Waiting(f) ==
    {u \in Threads : /\ th[u].fat = f
                     /\ th[u].pc \in {"fat_lock_wait", "fat_lock_woken",
                                      "transfer_wait", "transfer_woken"}}

Transferring(f) ==
    {u \in Threads : /\ th[u].fat = f
                     /\ th[u].pc \in {"transfer_wait", "transfer_woken"}}

\* The threads that keep a reference to fat_mutex f without holding the
\* lock: waiters, sleepers of cond_wait, and transfers that are unlocking a.
Pinning(f) ==
    {u \in Threads : \/ u \in Waiting(f)
                     \/ th[u].fat = f /\ th[u].pc = "cond_wait"
                     \/ th[u].fat_b = f /\ th[u].fat # f}

\* The heads of the secondary chains of handle h: live pegs that nothing
\* points to, val included.
SecondaryHeads(h) ==
    {g \in Addrs : /\ heap[g].kind = "peg" /\ heap[g].skinny = h
                   /\ val[h] # g
                   /\ \A x \in Addrs : heap[x].next # g}

\* The counters of fat_mutex f say what they are documented to say; the
\* reference count is settled whenever the mutex of f is free.
CountersExact(f) ==
    /\ heap[f].waiters = Cardinality(Waiting(f))
    /\ heap[f].transfers = Cardinality(Transferring(f))
    /\ heap[f].mutex = 0 =>
          heap[f].refcount = (IF heap[f].held THEN 1 ELSE 0)
                             + Cardinality(Pinning(f))
                             + Cardinality(SecondaryHeads(heap[f].skinny))

\* A transfer of thread t was vetoed: EAGAIN is decided or returned.
Vetoed(t) ==
    /\ th[t].op = "transfer"
    /\ \/ th[t].pc = "transfer_lock_a"
       \/ th[t].sub = "lock_slow"
       \/ th[t].pc = "idle" /\ th[t].res = "EAGAIN"

\* C7 (a vetoed transfer is undone): when transfer(a, b) has returned
\* EAGAIN the caller holds a again and does not hold b; from the moment
\* EAGAIN is decided, its entries in waiters and transfers and its reference
\* to the fat_mutex of b are gone, so that this fat_mutex is reclaimed when
\* the other users are done with it.
VetoedTransferUndone ==
    \A t \in Threads :
       Vetoed(t) =>
          /\ th[t].holding # th[t].b
          /\ \A f \in FatOf(th[t].b) : t \notin Pinning(f) /\ CountersExact(f)
          /\ th[t].pc = "idle" =>
                /\ th[t].holding = th[t].a
                /\ Locked(th[t].a)
                /\ \A u \in Threads \ {t} : ~Owns(u, th[t].a)
                /\ (\A u \in Threads : ~Busy(u, th[t].b)) => val[th[t].b] = 0

\* C7, its case: a transfer has returned EAGAIN while the thread that
\* vetoed it still holds b, whose fat_mutex is alive.
VetoedWhileHeld ==
    \E t, u \in Threads :
       /\ TransferReturned(t) /\ th[t].res = "EAGAIN"
       /\ th[u].holding = th[t].b
       /\ FatOf(th[t].b) # {}

\* C8 (a veto reaches only the transfers pending when it is made): a
\* transfer ends with EAGAIN only if a veto on b came after its snapshot of
\* transfer_gen, whatever vetoes came before it; and a transfer that took b
\* by CAS, with no snapshot, returns ok.
VetoOnlyPending ==
    \A t \in Threads :
       /\ Vetoed(t) => th[t].vetoed \in {"vetoed", "released", "late"}
       /\ (TransferReturned(t) /\ th[t].vetoed = "no") => th[t].res = "ok"

\* C8, its case: a transfer whose snapshot was taken after a veto on b (the
\* generation was already 1) waited for b and returned ok.
TransferAfterVeto ==
    \E t \in Threads :
       /\ TransferReturned(t) /\ th[t].res = "ok"
       /\ th[t].transfer_gen >= 1 /\ th[t].path = "blocked"

\* A cond_wait or cond_timedwait of thread t is over: it returned, or the
\* thread was cancelled and is unwinding.
CondWaitOver(t) == th[t].op = "cond_wait" /\ th[t].pc \in {"idle", "cancelled"}

\* C9 (a condition-variable wait ends with the handle held): whether the
\* wait ended by a signal, by the deadline or by cancellation, the thread
\* comes out of it as the one owner of the handle, which is locked; and no
\* two threads ever hold the handle.
CondWaitReacquires ==
    /\ \A t \in Threads :
          CondWaitOver(t) =>
             /\ th[t].holding = 1
             /\ th[t].res \in {"ok", "ETIMEDOUT", "cancelled"}
             /\ Locked(1)
             /\ \A u \in Threads \ {t} : ~Owns(u, 1)
    /\ Cardinality(Holders(1)) <= 1

\* C9, its case: a cancelled waiter that found the handle taken, waited for
\* it in fat_mutex_lock and unwinds holding it.
CancelledAfterWait ==
    \E t \in Threads : th[t].pc = "cancelled" /\ th[t].path = "blocked"

\* Thread t is inside a condition-variable wait, from giving up the lock to
\* having it back, or has come out of one and not called anything since.
InCondWait(t) ==
    \/ /\ th[t].sub = "cond_timedwait"
       /\ th[t].pc \in {"cond_wait", "fat_lock_wait", "fat_lock_woken"}
    \/ CondWaitOver(t)

\* C10 (a condition-variable wait releases and pins): while a thread sleeps
\* in a wait it does not hold the handle, which is locked only if another
\* thread owns it; from then until it has the lock back and calls unlock,
\* its fat_mutex is alive, is the fat_mutex of the handle and counts the
\* thread's reference, and val is a pointer, not 0 or 1.  Once nobody uses
\* the handle any more val is 0.
CondWaitPins ==
    /\ \A t \in Threads :
          /\ th[t].pc = "cond_wait" =>
                /\ th[t].holding = 0
                /\ Locked(1) <=> \E u \in Threads \ {t} : Owns(u, 1)
                /\ th[t].fat \in FatOf(1)
                /\ heap[th[t].fat].refcount >= 1
          /\ InCondWait(t) =>
                /\ val[1] > 1
                /\ Cardinality(FatOf(1)) = 1
                /\ th[t].pc \notin {"idle", "cancelled"} => FatOf(1) = {th[t].fat}
    /\ (\A t \in Threads : ~Busy(t, 1)) => val[1] = 0

\* C10, its case: a thread sleeps in a wait while another thread, which was
\* blocked in lock, holds the handle.
SleeperAndHolder ==
    \E t, u \in Threads :
       /\ th[t].pc = "cond_wait"
       /\ th[u].holding = 1 /\ th[u].op = "lock" /\ th[u].path = "blocked"

\* The fat_mutexes whose pthread mutex thread t has locked.
MutexesOf(t) == {f \in Addrs : heap[f].kind = "fat" /\ heap[f].mutex = t}

\* Thread t is about to lock the pthread mutex of a fat_mutex.
AtMutexLock(t) ==
    th[t].pc \in {"peg_lock", "fat_lock_woken", "cond_wait", "transfer_relock",
                  "transfer_woken"}

\* C11 (deadlock avoidance): no thread has the mutexes of two fat_mutexes
\* locked at once, and none has one locked when it goes for another; a
\* transfer in the slow unlock of a has let go of the mutex of fat_b, and a
\* vetoed transfer has let go of it for good before it locks a again, which
\* it starts with no mutex at all.  So no cycle of
\* threads waiting for each other's mutexes exists, transfer(a, b) against
\* transfer(b, a) included.
NoTwoMutexes ==
    \A t \in Threads :
       /\ Cardinality(MutexesOf(t)) <= 1
       /\ AtMutexLock(t) => MutexesOf(t) = {}
       /\ (th[t].op = "transfer" /\ th[t].sub = "unlock_slow" /\ th[t].fat_b # 0)
             => th[t].fat_b \notin MutexesOf(t)
       /\ th[t].pc = "transfer_lock_a" => MutexesOf(t) = {}
       /\ Vetoed(t) => MutexesOf(t) \cap FatOf(th[t].b) = {}

\* C11, its case: transfer(a, b) and transfer(b, a) run at once, one of them
\* in the slow unlock of its a with its reference to fat_b taken.
CrossingTransfers ==
    \E t, u \in Threads :
       /\ th[t].op = "transfer" /\ th[u].op = "transfer"
       /\ th[t].pc # "idle" /\ th[u].pc # "idle"
       /\ th[t].a = th[u].b /\ th[t].b = th[u].a
       /\ th[t].sub = "unlock_slow" /\ th[t].fat_b > 1

\* An unlock or a wait of thread t is at the point where it inspects the
\* handle, and the handle is not held: val is 0, or the fat_mutex is locked
\* and its held is false.
InspectsUnheld(t) ==
    /\ th[t].op \in {"unlock", "cond_wait"}
    /\ \/ th[t].pc = "get_held" /\ val[th[t].skinny] = 0
       \/ /\ th[t].pc \in {"unlock_slow_got", "cond_timedwait_got"}
          /\ ~heap[th[t].fat].held

\* C12 (not-owner): an unlock or a wait that inspects the handle and finds
\* it not held returns EPERM; the step that returns EPERM changes nothing
\* but the caller and the mutex it unlocks: val, held, waiters, transfers,
\* transfer_gen and refcount stay as they are and no thread is woken; and the
\* counters of every fat_mutex keep saying who uses it, so that the call
\* as a whole left the reference count where it was.
NotOwnerUnchanged ==
    /\ [][\A t \in Threads :
            LET eperm == /\ th'[t].pc = "idle" /\ th'[t].res = "EPERM"
                         /\ th'[t] # th[t] \/ th' = th
            IN /\ (InspectsUnheld(t) /\ th'[t] # th[t]) => eperm
               /\ eperm =>
                     /\ val' = val
                     /\ \A x \in Addrs : [heap'[x] EXCEPT !.mutex = 0]
                                            = [heap[x] EXCEPT !.mutex = 0]
                     /\ \A u \in Threads \ {t} : th'[u] = th[u]
                     /\ th'[t].holding = th[t].holding]_vars
    /\ [](\A f \in Addrs : heap[f].kind = "fat" => CountersExact(f))

\* C12, its case: a thread got EPERM from a fat_mutex whose held was false,
\* the lock having been given up by a thread that still sleeps in its wait.
NotOwnerBesideSleeper ==
    \E t, u \in Threads :
       /\ th[t].pc = "idle" /\ th[t].res = "EPERM" /\ th[t].path = "slow"
       /\ th[u].pc = "cond_wait"

\* Thread t's trylock of handle h returns in this step: from the inspection
\* of val (on entry, or on a later turn of the loop), or from the inspection
\* of held under the mutex of the fat_mutex.
TrylockDecides(t, h) ==
    /\ th'[t].pc = "idle"
    /\ \/ skinny_mutex_trylock(t, h)
       \/ th[t].pc \in {"trylock", "trylock_got"} /\ th[t].skinny = h

\* The cells of the heap but for the mutex of the fat_mutex.
SameButMutex ==
    \A x \in Addrs : [heap'[x] EXCEPT !.mutex = 0] = [heap[x] EXCEPT !.mutex = 0]

\* C13 (trylock): trylock never sleeps on the cond of the fat_mutex; it
\* returns EBUSY exactly when the handle is held where it inspects it (val is
\* 1, or held is true under the mutex of the fat_mutex) and ok otherwise; on
\* EBUSY val, held, waiters and refcount are unchanged; on ok through a
\* fat_mutex held becomes true and refcount grows by exactly one.
TrylockNeverWaits ==
    /\ [](\A t \in Threads :
            (th[t].pc # "idle" /\ th[t].op = "trylock")
               => th[t].pc \notin {"fat_lock_wait", "fat_lock_woken", "cond_wait",
                                   "transfer_wait", "transfer_woken"})
    /\ [][\A t \in Threads : \A h \in Handles :
            TrylockDecides(t, h) =>
               LET f == th[t].fat
                   inspected == IF th[t].pc = "trylock_got"
                                THEN heap[f].held ELSE val[h] = 1
               IN /\ th'[t].res \in {"ok", "EBUSY"}
                  /\ th'[t].res = "EBUSY" <=> inspected
                  /\ inspected <=> Locked(h)
                  /\ \A u \in Threads \ {t} : th'[u] = th[u]
                  /\ th'[t].res = "EBUSY" =>
                        /\ val' = val /\ SameButMutex
                        /\ th'[t].holding = 0
                  /\ th'[t].res = "ok" =>
                        /\ th'[t].holding = h
                        /\ IF th[t].pc = "trylock_got"
                           THEN /\ val' = val
                                /\ ~heap[f].held /\ heap'[f].held
                                /\ heap'[f].refcount = heap[f].refcount + 1
                                /\ heap' = [heap EXCEPT ![f].held = TRUE,
                                                        ![f].refcount = @ + 1,
                                                        ![f].mutex = 0]
                           ELSE /\ val[h] = 0
                                /\ val' = [val EXCEPT ![h] = 1]
                                /\ heap' = heap]_vars

\* C13, its case: one trylock took the lock through the fat_mutex that a
\* sleeper of cond_wait keeps alive, and another found it held there.
TrylockThroughFat ==
    \E t, u \in Threads : \E f \in Addrs :
       /\ th[t].pc = "idle" /\ th[t].op = "trylock" /\ th[t].res = "ok"
       /\ th[t].path = "slow" /\ th[t].holding # 0
       /\ f \in FatOf(th[t].holding) /\ heap[f].held /\ heap[f].refcount >= 2
       /\ val[th[t].holding] = f
       /\ th[u].pc = "idle" /\ th[u].op = "trylock" /\ th[u].res = "EBUSY"
       /\ th[u].path = "slow"

\* A transfer is pending on handle h: the fat_mutex of h counts a transfer,
\* or a thread in skinny_mutex_transfer keeps its reference to it.
TransferPending(h) ==
    \E f \in FatOf(h) :
       \/ heap[f].transfers > 0
       \/ \E t \in Threads : th[t].op = "transfer" /\ th[t].fat_b = f

\* Thread t's veto_transfer of handle h returns in this step.
VetoDecides(t, h) ==
    /\ th[t].pc \in {"veto_transfer", "veto_transfer_got"}
    /\ th[t].skinny = h
    /\ th'[t].pc = "idle"

\* The program state of a thread: its record without the history in vetoed.
Program(thr) == [thr EXCEPT !.vetoed = "no"]

\* C14 (veto_transfer outcomes): a pending transfer on a handle means val is
\* a pointer, so the return of ok on val == 1 misses none, and that return
\* touches nothing; veto_transfer returns EPERM on val == 0 and on held
\* false, leaving transfer_gen as it is; on held true it adds exactly one to
\* transfer_gen and, if transfers > 0, wakes every thread blocked on cond.
VetoOutcomes ==
    /\ [](\A h \in Handles : TransferPending(h) => val[h] \notin {0, 1})
    /\ [][\A t \in Threads : \A h \in Handles :
            VetoDecides(t, h) =>
               LET f == th[t].fat
                   others(woken) ==
                      \A u \in Threads \ {t} :
                         Program(th'[u]) =
                            Program(IF u \in woken
                                    THEN [th[u] EXCEPT !.pc = WokenLabel(@)]
                                    ELSE th[u])
               IN /\ val' = val
                  /\ th'[t].holding = th[t].holding
                  /\ IF th[t].pc = "veto_transfer"
                     THEN /\ val[h] \in {0, 1}
                          /\ th'[t].res = IF val[h] = 1 THEN "ok" ELSE "EPERM"
                          /\ heap' = heap
                          /\ \A u \in Threads \ {t} : th'[u] = th[u]
                     ELSE IF ~heap[f].held
                     THEN /\ th'[t].res = "EPERM"
                          /\ SameButMutex
                          /\ \A u \in Threads \ {t} : th'[u] = th[u]
                     ELSE /\ th'[t].res = "ok"
                          /\ heap'[f].transfer_gen = heap[f].transfer_gen + 1
                          /\ heap' = [heap EXCEPT ![f].transfer_gen = @ + 1,
                                                  ![f].mutex = 0]
                          /\ others(IF heap[f].transfers > 0
                                    THEN Blocked(Store, f) ELSE {})]_vars

\* C14, its case: a veto_transfer by a thread that holds nothing found held
\* false under the mutex of the fat_mutex and returned EPERM, while the
\* transfer that an earlier veto_transfer woke has not run yet.
VetoFindsUnheld ==
    \E t, u \in Threads :
       /\ th[t].pc = "idle" /\ th[t].op = "veto_transfer"
       /\ th[t].res = "EPERM" /\ th[t].path = "slow"
       /\ th[u].pc = "transfer_woken" /\ th[u].vetoed \in {"vetoed", "released"}

\* C15 (uncontended use never allocates): with one thread at a time in lock,
\* trylock or unlock on handles fresh from skinny_mutex_init, every call
\* returns at once, val stays in {0, 1} and is 1 exactly while a thread holds
\* the handle, no peg and no fat_mutex is ever allocated, and val is 0 after
\* every unlock.
NeverAllocates ==
    /\ [](\A h \in Handles :
            /\ val[h] \in {0, 1}
            /\ val[h] = IF Holders(h) # {} THEN 1 ELSE 0)
    /\ [](\A x \in Addrs : heap[x].kind = "free")
    /\ [](\A t \in Threads : th[t].pc = "idle")
    /\ [][\A t \in Threads :
            (th[t].holding # 0 /\ th'[t].holding = 0)
               => /\ th'[t].op = "unlock" /\ th'[t].res = "ok"
                  /\ val[th[t].holding] = 1
                  /\ val'[th[t].holding] = 0]_vars

\* C15, its case: after a lock and its unlock, one thread holds the handle
\* by trylock and another's trylock found it held.
UncontendedTrylocks ==
    \E t, u, w \in Threads :
       /\ th[t].op = "trylock" /\ th[t].res = "ok" /\ th[t].holding # 0
       /\ val[th[t].holding] = 1
       /\ th[u].op = "trylock" /\ th[u].res = "EBUSY"
       /\ th[w].op = "unlock" /\ th[w].res = "ok"

\* Where the chain that starts at x ends: the fat_mutex reached by following
\* next through live pegs, or 0 when the chain runs into anything else
\* within n steps.
RECURSIVE ChainEnd(_, _)
ChainEnd(x, n) ==
    IF ~Valid(x) THEN 0
    ELSE IF heap[x].kind = "fat" THEN x
    ELSE IF heap[x].kind = "peg" /\ n > 0 THEN ChainEnd(heap[x].next, n - 1)
    ELSE 0

\* The live pegs of handle h.
Pegs(h) == {g \in Addrs : heap[g].kind = "peg" /\ heap[g].skinny = h}

\* C16 (chain invariant): whenever val of a handle is a pointer, following
\* next from val through live pegs reaches a live fat_mutex of that handle;
\* the chain from every live peg of the handle,
\* secondary chains included, ends at that same fat_mutex; and held of that
\* fat_mutex is true exactly when one thread owns the handle.
ChainInvariant ==
    \A h \in Handles :
       /\ val[h] >= 0
       /\ val[h] > 1 =>
             LET f == ChainEnd(val[h], NAddrs) IN
             /\ f # 0
             /\ f \in FatOf(h)
             /\ \A g \in Pegs(h) : ChainEnd(g, NAddrs) = f
             /\ heap[f].held <=> \E t \in Threads : Owns(t, h)
             /\ Cardinality({t \in Threads : Owns(t, h)}) <= 1

\* C16, its case: val points straight to the held fat_mutex while a
\* secondary chain of two pegs still hangs off it.
ChainsOfPegs ==
    \E h \in Handles : \E g \in SecondaryHeads(h) :
       /\ val[h] \in FatOf(h) /\ heap[val[h]].held
       /\ Valid(heap[g].next) /\ heap[heap[g].next].kind = "peg"

\* C17 (refcount of the fat_mutex): whenever no thread holds the mutex of a
\* fat_mutex, its refcount is not negative and is the sum of 1 if held is
\* true, the threads waiting on cond in lock or transfer or between counting
\* their reference and returning, the sleepers of cond_wait, and the
\* secondary chains of pegs that end at it; the primary chain counts for
\* nothing.
RefcountAccounting ==
    \A f \in Addrs :
       (heap[f].kind = "fat" /\ heap[f].mutex = 0) =>
          /\ heap[f].refcount >= 0
          /\ heap[f].refcount =
                (IF heap[f].held THEN 1 ELSE 0)
                + Cardinality({u \in Pinning(f) : th[u].pc # "cond_wait"})
                + Cardinality({u \in Threads : th[u].fat = f /\ th[u].pc = "cond_wait"})
                + Cardinality({g \in SecondaryHeads(heap[f].skinny) :
                                  ChainEnd(g, NAddrs) = f})

\* C17, its case: a fat_mutex with its mutex free is held, has a thread
\* waiting or asleep on it, and a secondary chain ends at it.
RefcountOfThree ==
    \E f \in Addrs :
       /\ heap[f].kind = "fat" /\ heap[f].mutex = 0 /\ heap[f].held
       /\ Pinning(f) # {}
       /\ SecondaryHeads(heap[f].skinny) # {}
       /\ heap[f].refcount = 3

\* Thread t is about to take d off the refcount of peg g and to free it if
\* that leaves 0: the walker of a chain takes 1, the owner that found its own
\* peg at the head takes 2.
Decrements(t, g, d) ==
    \/ th[t].pc = "peg_chain" /\ th[t].p = g /\ d = 1
          /\ ~SamePtr(g, th[t].peg) /\ ~SamePtr(g, th[t].fat)
    \/ th[t].pc = "peg_retire" /\ th[t].peg = g /\ d = th[t].decr

Unpublished(f) ==
    \E t \in Threads : th[t].pc \in {"promote_cas", "release_free"} /\ th[t].fat = f

\* C19 as it is stated: whenever val of a handle is 0 or 1, no fat_mutex is
\* allocated for that handle.
NoFatWithoutPointer ==
    \A h \in Handles : val[h] \in {0, 1} => FatOf(h) = {}

\* C19 (amended): whenever val of a handle is 0 or 1, every fat_mutex
\* allocated for that handle is unpublished, in the hands of one thread
\* between its malloc and its CAS in skinny_mutex_promote or between its CAS
\* and its free in fat_mutex_release (or in skinny_mutex_promote when the CAS
\* failed); and every other fat_mutex is the one the chain from val ends at.
NoFatBehindSentinel ==
    \A h \in Handles : \A f \in FatOf(h) :
       /\ val[h] \in {0, 1} => Unpublished(f)
       /\ ~Unpublished(f) => ChainEnd(val[h], NAddrs) = f
       /\ Unpublished(f) => /\ ChainEnd(val[h], NAddrs) # f
                            /\ heap[f].waiters = 0 /\ heap[f].transfers = 0
                            /\ \A g \in Addrs : heap[g].next # f

\* C19, its case: val is 1, the handle is held through its fast path, and
\* two fat_mutexes of the handle are allocated, one that fat_mutex_release
\* has still to free and one that skinny_mutex_promote has still to publish.
TwoFatsUnpublished ==
    \E t, u \in Threads :
       /\ val[1] = 1
       /\ th[t].pc = "release_free" /\ th[t].fat \in FatOf(1)
       /\ th[u].pc = "promote_cas" /\ th[u].fat \in FatOf(1)

\* Thread t is in skinny_mutex_transfer with its snapshot of transfer_gen
\* taken from fat_b and the outcome not decided yet.
SnapshotTaken(t) == th[t].op = "transfer" /\ th[t].fat_b # 0

\* C20 (transfer_gen): transfer_gen of a fat_mutex never decreases; the only
\* step that changes it is the one of veto_transfer by the thread that holds
\* the handle, which adds one; and the fat_mutex that a pending transfer took
\* its snapshot from stays allocated, as the fat_mutex of b, until that
\* transfer is decided, so the snapshot is never compared with the
\* transfer_gen of another fat_mutex.
TransferGenMonotone ==
    /\ [](\A t \in Threads :
            SnapshotTaken(t) =>
               /\ th[t].fat_b \in FatOf(th[t].b)
               /\ heap[th[t].fat_b].refcount >= 1
               /\ heap[th[t].fat_b].transfer_gen >= th[t].transfer_gen
               /\ th[t].pc \in {"transfer_wait", "transfer_woken"}
                     => th[t].fat = th[t].fat_b)
    /\ [][/\ \A f \in Addrs :
             (heap[f].kind = "fat" /\ heap'[f].kind = "fat") =>
                \/ heap'[f].transfer_gen = heap[f].transfer_gen
                \/ /\ heap'[f].transfer_gen = heap[f].transfer_gen + 1
                   /\ \E t \in Threads :
                         /\ th[t].pc = "veto_transfer_got" /\ th[t].fat = f
                         /\ th[t].holding = heap[f].skinny
                         /\ heap[f].held
                         /\ th'[t].pc = "idle" /\ th'[t].res = "ok"
          /\ \A f \in Addrs :
                (heap[f].kind # "fat" /\ heap'[f].kind = "fat")
                   => heap'[f].transfer_gen = 0
          /\ \A t \in Threads :
                (SnapshotTaken(t) /\ th'[t].pc # "idle" /\ th'[t].fat_b # 0)
                   => /\ th'[t].fat_b = th[t].fat_b
                      /\ th'[t].transfer_gen = th[t].transfer_gen
                      /\ heap'[th[t].fat_b].kind = "fat"]_vars

\* C20, its case: a transfer woken by two veto_transfers of the holder of b
\* is about to compare its snapshot with a transfer_gen two ahead of it.
TwoVetoesPending ==
    \E t \in Threads :
       /\ SnapshotTaken(t) /\ th[t].pc = "transfer_woken"
       /\ th[t].fat_b \in FatOf(th[t].b)
       /\ heap[th[t].fat_b].transfer_gen = th[t].transfer_gen + 2

\* The step is one of thread t.
Acts(t) ==
    /\ th'[t] # th[t]
    /\ \/ PegStep(t) \/ LockStep(t) \/ UnlockStep(t) \/ TrylockStep(t)
       \/ CondStep(t) \/ TransferStep(t) \/ VetoStep(t)

\* The fat_mutex whose mutex thread t locks in its next step
\* (pthread_mutex_lock, or the return of pthread_cond_wait).
MutexWanted(t) ==
    IF th[t].pc = "transfer_relock" THEN th[t].fat_b ELSE th[t].fat

\* Thread t has the mutex of fat_mutex f locked during its step: it had it
\* locked before, or the step starts by locking it, which needs it free.
HasMutex(t, f) ==
    \/ heap[f].mutex = t
    \/ heap[f].mutex = 0 /\ AtMutexLock(t) /\ MutexWanted(t) = f

\* The fields of a fat_mutex that its mutex guards.
Guarded(c) ==
    <<c.kind, c.held, c.waiters, c.transfers, c.transfer_gen, c.refcount>>

\* Thread t is where the code reads or writes those fields of th[t].fat
\* with the mutex locked since fat_mutex_get returned.
InsideMutex(t) ==
    th[t].pc \in {"peg_chain", "peg_retire", "lock_slow_got", "trylock_got",
                  "unlock_slow_got", "cond_timedwait_got", "transfer_got",
                  "veto_transfer_got"}

\* C21 (no data race on the fat_mutex): every step that changes held,
\* waiters, transfers, transfer_gen or refcount of a published fat_mutex, or
\* frees it, is a step of a thread that has its mutex locked; a thread that
\* is where the code reads them has it locked; and a step that starts by
\* locking the mutex is taken only when the mutex is free.
NoDataRace ==
    /\ [](\A t \in Threads :
            InsideMutex(t) => /\ th[t].fat \in Addrs
                              /\ heap[th[t].fat].kind = "fat"
                              /\ heap[th[t].fat].mutex = t)
    /\ [][/\ \A f \in Addrs :
              (heap[f].kind = "fat" /\ Guarded(heap'[f]) # Guarded(heap[f]))
                 => \E t \in Threads : Acts(t) /\ HasMutex(t, f)
          /\ \A t \in Threads :
                (Acts(t) /\ AtMutexLock(t) /\ th'[t].pc # "crashed")
                   => /\ MutexWanted(t) \in Addrs
                      /\ heap[MutexWanted(t)].kind = "fat"
                      /\ heap[MutexWanted(t)].mutex = 0]_vars

\* C21, its case: a transfer back from the slow unlock of a is about to lock
\* the mutex of fat_b again while another thread has it locked.
RelockContended ==
    \E t, u \in Threads :
       /\ t # u
       /\ th[t].pc = "transfer_relock" /\ th[t].fat_b \in FatOf(th[t].b)
       /\ heap[th[t].fat_b].mutex = u
       /\ InsideMutex(u)

\* Thread t is inside an operation that involves handle h and can take a
\* step: it is not blocked on a condition variable.
Runnable(t, h) ==
    /\ th[t].pc \notin {"idle", "fat_lock_wait", "transfer_wait", "cond_wait",
                        "cancelled", "crashed", "unmodelled"}
    /\ h \in {th[t].skinny, th[t].a, th[t].b}

\* The threads that pthread_cond_signal or pthread_cond_broadcast on the
\* cond of fat_mutex f has woken and that have not run since.
Woken(f) ==
    {u \in Threads : /\ th[u].pc \in {"fat_lock_woken", "transfer_woken"}
                     /\ th[u].fat = f}

\* C22 (no lost wakeup): there is no state in which a fat_mutex is not
\* held, its mutex is free, a thread is blocked on its cond (in lock, in
\* transfer, or in the re-acquisition of cond_wait) and no thread is runnable
\* in an operation on the handle; and every step that releases the lock
\* while waiters > 0 (unlock, entry into cond_wait) leaves a waiter woken.
NoLostWakeup ==
    /\ [](\A f \in Addrs :
            (heap[f].kind = "fat" /\ ~heap[f].held /\ heap[f].mutex = 0
               /\ Blocked(Store, f) # {})
               => \E t \in Threads : Runnable(t, heap[f].skinny))
    /\ [][\A f \in Addrs :
            (heap[f].kind = "fat" /\ heap[f].held /\ heap[f].waiters > 0
               /\ heap'[f].kind = "fat" /\ ~heap'[f].held)
               => /\ Woken(f)' # {}
                  /\ Blocked(Store, f) # {} =>
                        \E w \in Blocked(Store, f) : w \in Woken(f)']_vars

\* C22, its case: of two waiters, the one that the release woke has not
\* run yet and has been overtaken by a thread that took the lock through the
\* fat_mutex; the other is still blocked.
OvertakenWaiter ==
    \E f \in Addrs : \E w, b, x \in Threads :
       /\ heap[f].kind = "fat" /\ heap[f].held /\ heap[f].waiters = 2
       /\ th[w].pc = "fat_lock_woken" /\ th[w].fat = f
       /\ th[b].pc = "fat_lock_wait" /\ th[b].fat = f
       /\ th[x].pc = "idle" /\ th[x].holding = heap[f].skinny
       /\ th[x].path = "slow"

====
